---- MODULE Spec2Model ----
(***************************************************************************)
(* UsageAccumulator (src/py/usageaccountant/accumulator.py): record() and  *)
(* flush() over the batch, the deque of producer futures and the messages *)
(* the producer accepts.                                                   *)
(* The daemon (src/daemon/main.py, src/daemon/periodic.py): the            *)
(* PeriodicRunner tasks, the shared asyncio.Queue and the consumption loop *)
(* of main(), run by the asyncio event loop.                               *)
(* The Datadog fetcher (src/py/usageaccountant/datadog_fetcher.py): the    *)
(* loop of main() over the queries and what it then does with the          *)
(* accumulator.                                                            *)
(*                                                                         *)
(* Time is counted in whole seconds and amounts are small naturals.  The   *)
(* batch is a sequence of entries in insertion order (a Python dict keeps  *)
(* insertion order, and flush() iterates it in that order).  A future is   *)
(* represented by its done() flag.                                         *)
(***************************************************************************)
EXTENDS Integers, Sequences, FiniteSets, TLC

\* ---------------------------------------------------------------- bounds
MaxTime == 3
MaxQueueSize == 2
MaxRecorded == 3
MaxAmount == 1
MaxCycles == 3
MaxFetched == 4
MaxCapacity == 1
MaxQueries == 2
MaxSeries == 1
MaxPoints == 2

\* ------------------------------------------------------- program constants
\* granularity_sec, the constructor's first argument (the tests pass 10 and 1).
granularity_sec == 2

\* Optional[float] = None: first_timestamp before the first record().
None == -1

Resources == {"metrics_consumer"}
Features == {"spans", "transactions"}
\* class UsageUnit: the member the tests record with.
UsageUnit == {"BYTES"}

\* UsageUnit.<member>.value
UnitValue(u) ==
  CASE u = "SECONDS" -> "seconds"
    [] u = "BYTES" -> "bytes"
    [] u = "BYTES_SEC" -> "bytes_sec"

VARIABLES
  now,              \* what time.time() returns
  first_timestamp,  \* self.__first_timestamp
  usage_batch,      \* self.__usage_batch, entries in insertion order
  futures,          \* self.__futures: the done() flag of each future, oldest first
  queue_size,       \* self.__queue_size
  published,        \* history: per key, whether the producer has accepted a
                    \* message for it "never", "once" or "again"
  recorded,         \* history: per key, the total amount passed to record()
  pending,          \* history: per key, the amount passed to record() since
                    \* the last flush that submitted the key
  window_start,     \* history: time of the first record() since the last flush
  call,             \* history: what the last call did
  \* the daemon
  dry_run,          \* main(): dry_run
  max_queue_size,   \* main(): max_queue_size
  queue,            \* the asyncio.Queue: the items it holds, oldest first
  putters,          \* the queue's waiting put() calls, oldest first
  ready,            \* the event loop's ready callbacks, in call_soon order
  todo,             \* how many of them the current loop iteration still runs
  main_pc,          \* where the task of main() is
  rpc,              \* per Runner, where its current _run() task is
  cycle,            \* per Runner, the number of _run() tasks created
  got,              \* per Runner, what its get() gave and _run() has not read
  fetched,          \* history: the Datapoints get() calls have returned
  enqueued,         \* history: the Datapoints in the order they were enqueued
  consumed,         \* history: the Datapoints in the order they were dequeued
  handed,           \* history: the Datapoints passed to ua.record(), in order
  \* the Datadog fetcher
  ddf_dry_run,      \* main(): dry_run
  n_queries,        \* main(): len(query_list)
  query_no,         \* main(): which query the loop is at, from 1
  ddf_pc,           \* where main() is: "loop", "done" or "raised"
  ddf_error,        \* the exception main() raised
  record_list,      \* main(): record_list
  query_dict,       \* history: the query the loop handled last, in short
  wanted,           \* history: the points with a value in the responses of
                    \* the queries the loop has passed
  calls             \* history: the calls made on usage_accumulator, in order

avars == <<now, first_timestamp, usage_batch, futures, queue_size, published,
           recorded, pending, window_start, call>>

dvars == <<dry_run, max_queue_size, queue, putters, ready, todo, main_pc, rpc,
           cycle, got, fetched, enqueued, consumed, handed>>

fvars == <<ddf_dry_run, n_queries, query_no, ddf_pc, ddf_error, record_list,
           query_dict, wanted, calls>>

vars == <<avars, dvars, fvars>>

\* ------------------------------------------------------------------ keys
\* The bucket of a time, as the specification defines it: floor(t / G).
FloorBucket(t) == t \div granularity_sec

Buckets == 0..FloorBucket(MaxTime)

\* UsageKey = Tuple[int, str, str, UsageUnit]
UsageKey == Buckets \X Resources \X Features \X UsageUnit

\* Mutant of BucketOf: the time is left out of the key.
BucketDropped(t) == 0

\* int(now / self.__granularity_sec): truncation, equal to floor for now >= 0.
BucketOf(t) == t \div granularity_sec

\* The key record() builds (lines 133-138).
KeyOf(t, resource_id, app_feature, usage_type) ==
  <<BucketOf(t), resource_id, app_feature, usage_type>>

\* key in self.__usage_batch
HasKey(batch, key) == \E i \in 1..Len(batch) : batch[i].key = key

\* The amount the batch holds for a key; 0 where the key is absent.
AmountOf(batch, key) ==
  IF HasKey(batch, key)
  THEN batch[CHOOSE i \in 1..Len(batch) : batch[i].key = key].amount
  ELSE 0

\* self.__usage_batch[key] += amount (lines 132-139).  The batch is built as
\* defaultdict() with no default_factory (line 74), so reading an absent key
\* raises KeyError and stores nothing; a present key has the amount added.
AugAdd(batch, key, amount) ==
  IF HasKey(batch, key)
  THEN [raised |-> FALSE,
        batch |-> [i \in 1..Len(batch) |->
                     IF batch[i].key = key
                     THEN [key |-> key, amount |-> batch[i].amount + amount]
                     ELSE batch[i]]]
  ELSE [raised |-> TRUE, batch |-> batch]

\* ----------------------------------------------------------------- flush
\* Mutant of PruneQueue: nothing is popped.
PruneNothing(futs) == futs

\* Mutant of PruneQueue: every done future is dropped, wherever it is.
PruneAllDone(futs) == SelectSeq(futs, LAMBDA f : ~f)

\* __prune_queue (lines 175-177): pop from the left while the front is done.
RECURSIVE PruneQueue(_)
PruneQueue(futs) ==
  IF futs # <<>> /\ Head(futs) THEN PruneQueue(Tail(futs)) ELSE futs

\* Mutant of Items: the entries are visited newest first.
RECURSIVE ItemsReversed(_)
ItemsReversed(batch) ==
  IF batch = <<>> THEN <<>>
  ELSE Append(ItemsReversed(Tail(batch)), Head(batch))

\* self.__usage_batch.items() (line 154): the entries in insertion order.
Items(batch) == batch

\* Mutant of OnReject: the future is appended before produce() is called.
OnRejectAppends(futs) == Append(futs, FALSE)

\* The deque when produce() raises (lines 167-173): the exception leaves
\* flush() before the append of line 173.
OnReject(futs) == futs

\* Mutant of Message: the timestamp is the start of the bucket in seconds.
MessageBucketStart(entry) ==
  [timestamp |-> entry.key[1] * granularity_sec,
   shared_resource_id |-> entry.key[2],
   app_feature |-> entry.key[3],
   usage_unit |-> UnitValue(entry.key[4]),
   amount |-> entry.amount]

\* The message flush() builds for one entry (lines 159-165).
Message(entry) ==
  [timestamp |-> entry.key[1],
   shared_resource_id |-> entry.key[2],
   app_feature |-> entry.key[3],
   usage_unit |-> UnitValue(entry.key[4]),
   amount |-> entry.amount]

\* Mutants of AtCapacity: the test is missing; the test is one too late.
AtCapacityNever(futs, size) == FALSE

AtCapacityLate(futs, size) == Len(futs) = size + 1

\* Mutant of AtCapacity: the loop stops one future short of queue_size.
AtCapacityEarly(futs, size) == Len(futs) + 1 >= size

\* Mutant of AtCapacity: the loop stops only above queue_size.
AtCapacityAbove(futs, size) == Len(futs) > size

\* len(self.__futures) == self.__queue_size (line 155)
AtCapacity(futs, size) == Len(futs) = size

\* The for loop of flush() (lines 154-173) over the entries not yet visited.
\* reject > 0: the producer raises on the reject-th produce() of this call;
\* the exception leaves the loop and the method, after the earlier appends.
RECURSIVE FlushLoop(_, _, _, _, _)
FlushLoop(items, futs, sent, size, reject) ==
  IF items = <<>>
  THEN [futures |-> futs, sent |-> sent, raised |-> FALSE, capped |-> FALSE]
  ELSE IF AtCapacity(futs, size)
  THEN [futures |-> futs, sent |-> sent, raised |-> FALSE, capped |-> TRUE]
  ELSE IF Len(sent) + 1 = reject
  THEN [futures |-> OnReject(futs), sent |-> sent, raised |-> TRUE,
        capped |-> FALSE]
  ELSE FlushLoop(Tail(items), Append(futs, FALSE),
                 Append(sent, Message(Head(items))), size, reject)

\* The body of flush() (lines 152-173): prune, then the loop.  Nothing is
\* removed from the batch, first_timestamp is not touched and `synchronous`
\* is not read.
FlushBody(batch, futs, size, reject) ==
  LET pruned == PruneQueue(futs)
      r == FlushLoop(Items(batch), pruned, <<>>, size, reject)
  IN  [futures |-> r.futures, sent |-> r.sent, raised |-> r.raised,
       capped |-> r.capped, pruned |-> pruned]

\* ------------------------------------------------------------- the state
\* Whether a message is the one flush() builds for a key.
MsgIsFor(m, key) ==
  /\ m.timestamp = key[1]
  /\ m.shared_resource_id = key[2]
  /\ m.app_feature = key[3]
  /\ m.usage_unit = UnitValue(key[4])

Submits(sent, key) == \E i \in 1..Len(sent) : MsgIsFor(sent[i], key)

\* The histories after the producer accepted the messages `sent`.
Accepted(counts, sent) ==
  [k \in UsageKey |->
     IF ~Submits(sent, k) THEN counts[k]
     ELSE IF counts[k] = "never" THEN "once" ELSE "again"]

\* The total amount passed to record() so far.
RECURSIVE Total(_, _)
Total(amounts, keys) ==
  IF keys = {} THEN 0
  ELSE LET k == CHOOSE x \in keys : TRUE
       IN  amounts[k] + Total(amounts, keys \ {k})

Cleared(amounts, sent) ==
  [k \in UsageKey |-> IF Submits(sent, k) THEN 0 ELSE amounts[k]]

\* ---------------------------------------------------- the daemon's state
\* One Runner per configured fetcher, in the order of the configuration.
RunnerSeq == <<"r1", "r2">>

Runners == {RunnerSeq[n] : n \in 1..Len(RunnerSeq)}

\* The accumulator on its own: no daemon runs beside it.
NoDaemon ==
  /\ dry_run = TRUE
  /\ max_queue_size = 0
  /\ queue = <<>>
  /\ putters = <<>>
  /\ ready = <<>>
  /\ todo = 0
  /\ main_pc = "none"
  /\ rpc = [r \in Runners |-> "none"]
  /\ cycle = [r \in Runners |-> 0]
  /\ got = [r \in Runners |-> 0]
  /\ fetched = {}
  /\ enqueued = <<>>
  /\ consumed = <<>>
  /\ handed = <<>>

\* A query in the short form the history keeps.
NoQuery == [valid |-> TRUE, error |-> FALSE, unit |-> "", empty |-> FALSE]

\* No fetcher runs beside the accumulator or the daemon.
NoFetcher ==
  /\ ddf_dry_run = TRUE
  /\ n_queries = 0
  /\ query_no = 1
  /\ ddf_pc = "none"
  /\ ddf_error = "none"
  /\ record_list = <<>>
  /\ query_dict = NoQuery
  /\ wanted = 0
  /\ calls = <<>>

\* What the last call did: the operation, the exception it raised, whether
\* the body of flush() ran in it, the `synchronous` argument it ran with, and
\* for that body the futures it found,
\* the entries it iterated, the messages it submitted and whether its loop
\* stopped at capacity; window is window_start as the call found it.
NoCall(op) ==
  [op |-> op, raised |-> "none", flushed |-> FALSE, synchronous |-> FALSE,
   found |-> <<>>,
   batch |-> <<>>, sent |-> <<>>, capped |-> FALSE, window |-> None]

\* __init__ (lines 73-105): no timestamp, an empty batch, no futures.
Init ==
  /\ now = 0
  /\ first_timestamp = None
  /\ usage_batch = <<>>
  /\ futures = <<>>
  /\ queue_size \in 0..MaxQueueSize
  /\ published = [k \in UsageKey |-> "never"]
  /\ recorded = [k \in UsageKey |-> 0]
  /\ pending = [k \in UsageKey |-> 0]
  /\ window_start = None
  /\ call = NoCall("init")
  /\ NoDaemon
  /\ NoFetcher

\* time.time() moves on.
Tick ==
  /\ now < MaxTime
  /\ now' = now + 1
  /\ call' = NoCall("tick")
  /\ UNCHANGED <<first_timestamp, usage_batch, futures, queue_size, published,
                 recorded, pending, window_start>>
  /\ UNCHANGED <<dvars, fvars>>

\* Mutant of FirstTimestamp: every record() restarts the window.
FirstTimestampAlways(ft, t) == t

\* if self.__first_timestamp is None: self.__first_timestamp = now
\* (lines 129-130)
FirstTimestamp(ft, t) == IF ft = None THEN t ELSE ft

\* Mutant of Triggers: the comparison is not strict.
TriggersAtEqual(t, ft) == t - ft >= granularity_sec

\* now - self.__first_timestamp > self.__granularity_sec (line 141)
Triggers(t, ft) == t - ft > granularity_sec

\* record() (lines 107-142).  reject is the producer's answer to the flush
\* that record() may start.
record(resource_id, app_feature, amount, usage_type, reject) ==
  LET ft == FirstTimestamp(first_timestamp, now)
      key == KeyOf(now, resource_id, app_feature, usage_type)
      hkey == <<FloorBucket(now), resource_id, app_feature, usage_type>>
      upd == AugAdd(usage_batch, key, amount)
      triggers == ~upd.raised /\ Triggers(now, ft)
      f == FlushBody(upd.batch, futures, queue_size, reject)
      sent == IF triggers THEN f.sent ELSE <<>>
  IN  /\ Total(recorded, UsageKey) + amount <= MaxRecorded
      /\ first_timestamp' = ft
      /\ usage_batch' = upd.batch
      /\ futures' = IF triggers THEN f.futures ELSE futures
      /\ published' = Accepted(published, sent)
      /\ recorded' = [recorded EXCEPT ![hkey] = @ + amount]
      /\ pending' = Cleared([pending EXCEPT ![hkey] = @ + amount], sent)
      /\ window_start' = IF triggers THEN None
                         ELSE IF window_start = None THEN now
                         ELSE window_start
      /\ call' = [op |-> "record",
                  raised |-> IF upd.raised THEN "KeyError"
                             ELSE IF triggers /\ f.raised THEN "ProduceError"
                             ELSE "none",
                  flushed |-> triggers,
                  synchronous |-> FALSE,
                  found |-> IF triggers THEN futures ELSE <<>>,
                  batch |-> IF triggers THEN upd.batch ELSE <<>>,
                  sent |-> sent,
                  capped |-> triggers /\ f.capped,
                  window |-> window_start]
      /\ UNCHANGED <<now, queue_size>>
      /\ UNCHANGED <<dvars, fvars>>

\* flush() (lines 144-173).
flush(synchronous, reject) ==
  LET f == FlushBody(usage_batch, futures, queue_size, reject)
  IN  /\ futures' = f.futures
      /\ published' = Accepted(published, f.sent)
      /\ pending' = Cleared(pending, f.sent)
      /\ window_start' = None
      /\ call' = [op |-> "flush",
                  raised |-> IF f.raised THEN "ProduceError" ELSE "none",
                  flushed |-> TRUE, synchronous |-> synchronous,
                  found |-> futures, batch |-> usage_batch,
                  sent |-> f.sent, capped |-> f.capped,
                  window |-> window_start]
      /\ UNCHANGED <<now, first_timestamp, usage_batch, queue_size, recorded>>
      /\ UNCHANGED <<dvars, fvars>>

\* The producer confirms the delivery of one outstanding message: the
\* future's done() turns true.
Complete(i) ==
  /\ i \in 1..Len(futures)
  /\ ~futures[i]
  /\ futures' = [futures EXCEPT ![i] = TRUE]
  /\ call' = NoCall("complete")
  /\ UNCHANGED <<now, first_timestamp, usage_batch, queue_size, published,
                 recorded, pending, window_start>>
  /\ UNCHANGED <<dvars, fvars>>

Record ==
  \E r \in Resources, f \in Features, a \in 1..MaxAmount, u \in UsageUnit,
     reject \in 0..Len(usage_batch) :
    record(r, f, a, u, reject)

Flush == \E synchronous \in BOOLEAN, reject \in 0..Len(usage_batch) :
           flush(synchronous, reject)

Completion == \E i \in 1..Len(futures) : Complete(i)

\* The accumulator as constructed.
Next == Tick \/ Record \/ Flush

Spec == Init /\ [][Next]_vars

\* ------------------------------------------------- a batch that holds entries
\* From Init the batch never gets an entry (record() raises on every absent
\* key), so flush() never meets one.  InitLoaded is the accumulator at time
\* granularity_sec whose batch holds one entry of amount 1 for each of up to
\* MaxRecorded record() calls made at times 0..granularity_sec (entries in the
\* order of their buckets), with nothing submitted yet: what flush() and
\* record() do with the entries of a batch is examined from there.
RECURSIVE InCallOrder(_)
InCallOrder(batch) ==
  \/ batch = <<>>
  \/ /\ ~HasKey(Tail(batch), Head(batch).key)
     /\ \A i \in 1..Len(Tail(batch)) : Head(batch).key[1] <= Tail(batch)[i].key[1]
     /\ InCallOrder(Tail(batch))

SeedKeys == {k \in UsageKey : k[1] <= FloorBucket(granularity_sec)}

SeedBatches ==
  {b \in UNION {[1..n -> [key : SeedKeys, amount : {1}]] : n \in 1..MaxRecorded} :
     InCallOrder(b)}

InitLoaded ==
  /\ now = granularity_sec
  /\ first_timestamp = 0
  /\ usage_batch \in SeedBatches
  /\ futures = <<>>
  /\ queue_size \in 0..MaxQueueSize
  /\ published = [k \in UsageKey |-> "never"]
  /\ recorded = [k \in UsageKey |-> AmountOf(usage_batch, k)]
  /\ pending = [k \in UsageKey |-> AmountOf(usage_batch, k)]
  /\ window_start = 0
  /\ call = NoCall("init")
  /\ NoDaemon
  /\ NoFetcher

NextLoaded == Tick \/ Record \/ Flush \/ Completion

SpecLoaded == InitLoaded /\ [][NextLoaded]_vars

\* flush() keeps being called with the producer accepting what it submits,
\* and every outstanding message is eventually confirmed.
FlushAccepted == \E synchronous \in BOOLEAN : flush(synchronous, 0)

FairLoaded == SpecLoaded /\ WF_vars(FlushAccepted) /\ WF_vars(Completion)

\* ============================================================ the daemon
\* The event loop runs the ready callbacks in the order call_soon() got them,
\* one loop iteration running the callbacks that were ready when it began;
\* timers and completed I/O are added between iterations.  A callback is one
\* step of a task, from one suspension to the next.
Handle(kind, r, c, i) == [kind |-> kind, r |-> r, c |-> c, i |-> i]

MainHandle == Handle("main", "main", 0, 0)

\* The done-callback of the task of main() that stops asyncio.run()'s loop.
StopHandle == Handle("stop", "main", 0, 0)

RunHandle(r) == Handle("run", r, 0, 0)

\* A Datapoint: the i-th of those the get() of cycle c of Runner r returned.
Datapoint(h) == [r |-> h.r, c |-> h.c, i |-> h.i]

\* What a get() gives: a sequence of Datapoints (its length), or an error.
Raises == -1

\* get() does not finish in the step that calls it.
Suspends == -2

\* The Datapoints get() calls have returned, those not yet read by _run()
\* included; the cycles started.
RECURSIVE SumOver(_, _)
SumOver(f, set) ==
  IF set = {} THEN 0
  ELSE LET x == CHOOSE y \in set : TRUE
       IN  f[x] + SumOver(f, set \ {x})

Returned ==
  Cardinality(fetched)
    + SumOver([r \in Runners |-> IF got[r] > 0 THEN got[r] ELSE 0], Runners)

Outcomes == (0..(MaxFetched - Returned)) \cup {Raises}

\* The iteration's count after one more callback has run.
AfterStep == (IF todo = 0 THEN Len(ready) ELSE todo) - 1

\* Mutant of QueueFull: a bounded queue is never taken as full.
QueueNeverFull(q, maxsize) == FALSE

\* asyncio.Queue.full(): maxsize <= 0 is unbounded.
QueueFull(q, maxsize) == maxsize > 0 /\ Len(q) >= maxsize

\* Mutant of OnGetError: the error reaches main().
ErrorReachesMain(pc) == "raised"

\* What an exception in a _run() task does to main(): nothing.  The task was
\* made by create_task() and nobody awaits it; the exception stays in it.
OnGetError(pc) == pc

\* asyncio.gather(*[self.queue.put(item) for item in results]) (line 12): one
\* task per item, made in order, each scheduled with call_soon(); the result
\* of gather() is dropped.
PutTasks(r, c, n) == [i \in 1..n |-> Handle("put", r, c, i)]

\* Lines 11-13 of _run() once get() has given `outcome`: an error ends the
\* task; otherwise the puts are scheduled and the task sleeps.
RunAfterGet(r, outcome, rest) ==
  IF outcome = Raises
  THEN /\ rpc' = [rpc EXCEPT ![r] = "failed"]
       /\ main_pc' = OnGetError(main_pc)
       /\ ready' = rest
       /\ fetched' = fetched
  ELSE /\ rpc' = [rpc EXCEPT ![r] = "sleeping"]
       /\ main_pc' = main_pc
       /\ ready' = rest \o PutTasks(r, cycle[r], outcome)
       /\ fetched' = fetched \cup
                      {Datapoint(Handle("put", r, cycle[r], i)) : i \in 1..outcome}

\* main() up to its first suspension (lines 12-34): the queue, one started
\* Runner per fetcher, then, unless dry_run, UsageAccumulator(topic_name=...,
\* kafka_config=...), which raises TypeError (granularity_sec is required and
\* kafka_config is no parameter of __init__); only KeyError is caught, so
\* main() ends there and asyncio.run() stops the loop after this iteration.
\* With dry_run, main() suspends in queue.get() on the empty queue.
MainStart ==
  /\ ready # <<>> /\ Head(ready) = MainHandle
  /\ main_pc = "start"
  /\ rpc' = [r \in Runners |-> "created"]
  /\ cycle' = [r \in Runners |-> 1]
  /\ IF dry_run
     THEN /\ main_pc' = "waiting"
          /\ ready' = Tail(ready) \o [n \in 1..Len(RunnerSeq) |-> RunHandle(RunnerSeq[n])]
     ELSE /\ main_pc' = "raised"
          /\ ready' = Tail(ready)
                        \o [n \in 1..Len(RunnerSeq) |-> RunHandle(RunnerSeq[n])]
                        \o <<StopHandle>>
  /\ todo' = AfterStep
  /\ UNCHANGED <<dry_run, max_queue_size, queue, putters, got, fetched,
                 enqueued, consumed, handed>>
  /\ UNCHANGED <<avars, fvars>>

\* The first step of a _run() task (line 11): it calls get(), which suspends
\* for I/O, or returns or raises without suspending.
RunStart(r, outcome) ==
  /\ ready # <<>> /\ Head(ready) = RunHandle(r)
  /\ rpc[r] = "created"
  /\ IF outcome = Suspends
     THEN /\ rpc' = [rpc EXCEPT ![r] = "fetching"]
          /\ ready' = Tail(ready)
          /\ UNCHANGED <<main_pc, fetched>>
     ELSE RunAfterGet(r, outcome, Tail(ready))
  /\ todo' = AfterStep
  /\ UNCHANGED <<dry_run, max_queue_size, queue, putters, cycle, got,
                 enqueued, consumed, handed>>
  /\ UNCHANGED <<avars, fvars>>

\* The I/O of a suspended get() completes: its task is made ready.
GetCompletes(r, outcome) ==
  /\ todo = 0
  /\ rpc[r] = "fetching"
  /\ rpc' = [rpc EXCEPT ![r] = "fetched"]
  /\ got' = [got EXCEPT ![r] = outcome]
  /\ ready' = Append(ready, RunHandle(r))
  /\ UNCHANGED <<dry_run, max_queue_size, queue, putters, todo, main_pc, cycle,
                 fetched, enqueued, consumed, handed>>
  /\ UNCHANGED <<avars, fvars>>

\* _run() resumes with what get() gave (lines 11-13).
RunFetched(r) ==
  /\ ready # <<>> /\ Head(ready) = RunHandle(r)
  /\ rpc[r] = "fetched"
  /\ RunAfterGet(r, got[r], Tail(ready))
  /\ got' = [got EXCEPT ![r] = 0]
  /\ todo' = AfterStep
  /\ UNCHANGED <<dry_run, max_queue_size, queue, putters, cycle, enqueued,
                 consumed, handed>>
  /\ UNCHANGED <<avars, fvars>>

\* The timer of asyncio.sleep(self.interval) (line 13) expires.
SleepEnds(r) ==
  /\ todo = 0
  /\ rpc[r] = "sleeping"
  /\ SumOver(cycle, Runners) < MaxCycles
  /\ rpc' = [rpc EXCEPT ![r] = "woken"]
  /\ ready' = Append(ready, RunHandle(r))
  /\ UNCHANGED <<dry_run, max_queue_size, queue, putters, todo, main_pc, cycle,
                 got, fetched, enqueued, consumed, handed>>
  /\ UNCHANGED <<avars, fvars>>

\* asyncio.create_task(self._run()) (line 14): the next cycle's task is
\* scheduled and this one ends.
RunAgain(r) ==
  /\ ready # <<>> /\ Head(ready) = RunHandle(r)
  /\ rpc[r] = "woken"
  /\ rpc' = [rpc EXCEPT ![r] = "created"]
  /\ cycle' = [cycle EXCEPT ![r] = @ + 1]
  /\ ready' = Append(Tail(ready), RunHandle(r))
  /\ todo' = AfterStep
  /\ UNCHANGED <<dry_run, max_queue_size, queue, putters, main_pc, got,
                 fetched, enqueued, consumed, handed>>
  /\ UNCHANGED <<avars, fvars>>

\* One step of a queue.put(item) task: while the queue is full it waits among
\* the putters (again at the back when it was woken and found the queue
\* full); otherwise the item goes in and the waiting get() is woken.
QueuePut ==
  /\ ready # <<>> /\ Head(ready).kind = "put"
  /\ IF QueueFull(queue, max_queue_size)
     THEN /\ putters' = Append(putters, Head(ready))
          /\ ready' = Tail(ready)
          /\ UNCHANGED <<queue, enqueued, main_pc>>
     ELSE /\ queue' = Append(queue, Datapoint(Head(ready)))
          /\ enqueued' = Append(enqueued, Datapoint(Head(ready)))
          /\ IF main_pc = "waiting"
             THEN main_pc' = "ready" /\ ready' = Append(Tail(ready), MainHandle)
             ELSE main_pc' = main_pc /\ ready' = Tail(ready)
          /\ putters' = putters
  /\ todo' = AfterStep
  /\ UNCHANGED <<dry_run, max_queue_size, rpc, cycle, got, fetched, consumed,
                 handed>>
  /\ UNCHANGED <<avars, fvars>>

\* The items the loop of main() takes in one step: all of them, because
\* queue.get() does not suspend on a queue that holds an item, and print()
\* and ua.record() do not suspend either.
Taken(q) == Len(q)

\* queue.get_nowait(): the oldest item.
QueueGet(q) == [item |-> Head(q), rest |-> Tail(q)]

\* The items `n` successive get() calls return.
RECURSIVE GetItems(_, _)
GetItems(q, n) ==
  IF n = 0 \/ q = <<>> THEN [items |-> <<>>, rest |-> q]
  ELSE LET g == QueueGet(q)
           more == GetItems(g.rest, n - 1)
       IN  [items |-> <<g.item>> \o more.items, rest |-> more.rest]

Min(a, b) == IF a < b THEN a ELSE b

\* The loop of main() (lines 34-38), woken with items in the queue: each
\* get() takes the oldest item and wakes the oldest waiting put(); with
\* dry_run the item is printed, otherwise passed to ua.record().  On the
\* empty queue the loop suspends in get().
Consume ==
  /\ ready # <<>> /\ Head(ready) = MainHandle
  /\ main_pc = "ready"
  /\ LET n == Taken(queue)
         g == GetItems(queue, n)
         k == Min(Len(g.items), Len(putters))
     IN  /\ queue' = g.rest
         /\ consumed' = consumed \o g.items
         /\ handed' = IF dry_run THEN handed ELSE handed \o g.items
         /\ putters' = SubSeq(putters, k + 1, Len(putters))
         /\ IF g.rest = <<>>
            THEN /\ main_pc' = "waiting"
                 /\ ready' = Tail(ready) \o SubSeq(putters, 1, k)
            ELSE /\ main_pc' = "ready"
                 /\ ready' = Tail(ready) \o SubSeq(putters, 1, k) \o <<MainHandle>>
  /\ todo' = AfterStep
  /\ UNCHANGED <<dry_run, max_queue_size, rpc, cycle, got, fetched, enqueued>>
  /\ UNCHANGED <<avars, fvars>>

\* asyncio.run() after main() has raised: the loop stops at the end of the
\* iteration and every task left is cancelled; a task not yet started
\* never runs.
LoopStop ==
  /\ ready # <<>> /\ Head(ready) = StopHandle
  /\ main_pc' = "stopped"
  /\ rpc' = [r \in Runners |->
               IF rpc[r] \in {"failed"} THEN rpc[r] ELSE "cancelled"]
  /\ ready' = <<>>
  /\ putters' = <<>>
  /\ todo' = 0
  /\ UNCHANGED <<dry_run, max_queue_size, queue, cycle, got, fetched, enqueued,
                 consumed, handed>>
  /\ UNCHANGED <<avars, fvars>>

\* Mutant of Killed: the task outlives the signal.
Survives(pc) == pc

\* What SIGTERM does to the task of a Runner.  signal.signal(signal.SIGTERM, ...) (line 29)
\* is never reached: dry_run skips it, and otherwise the constructor call
\* before it raises.  The signal keeps its default action, which ends the
\* process and every task in it.
Killed(pc) == "killed"

\* The tasks of the Runners that have not ended.
Alive == {"created", "fetching", "fetched", "sleeping", "woken"}

\* SIGTERM is delivered while the process runs: no handler runs, no flush()
\* is called, the process ends.
Sigterm ==
  /\ main_pc \in {"start", "waiting", "ready", "raised"}
  /\ main_pc' = "killed"
  /\ rpc' = [r \in Runners |->
               IF rpc[r] \in Alive THEN Killed(rpc[r]) ELSE rpc[r]]
  /\ ready' = <<>>
  /\ putters' = <<>>
  /\ todo' = 0
  /\ UNCHANGED <<dry_run, max_queue_size, queue, cycle, got, fetched, enqueued,
                 consumed, handed>>
  /\ UNCHANGED <<avars, fvars>>

Run ==
  \E r \in Runners :
    \/ \E outcome \in Outcomes \cup {Suspends} : RunStart(r, outcome)
    \/ RunFetched(r)
    \/ RunAgain(r)

Fetch == \E r \in Runners, outcome \in Outcomes : GetCompletes(r, outcome)

Sleep == \E r \in Runners : SleepEnds(r)

\* asyncio.run(main(args.config, args.max_queue_size, args.dry_run)): the task
\* of main() is the only ready callback; no accumulator exists yet.
InitDaemon ==
  /\ now = 0
  /\ first_timestamp = None
  /\ usage_batch = <<>>
  /\ futures = <<>>
  /\ queue_size = 0
  /\ published = [k \in UsageKey |-> "never"]
  /\ recorded = [k \in UsageKey |-> 0]
  /\ pending = [k \in UsageKey |-> 0]
  /\ window_start = None
  /\ call = NoCall("init")
  /\ dry_run \in BOOLEAN
  /\ max_queue_size \in 0..MaxCapacity
  /\ queue = <<>>
  /\ putters = <<>>
  /\ ready = <<MainHandle>>
  /\ todo = 0
  /\ main_pc = "start"
  /\ rpc = [r \in Runners |-> "none"]
  /\ cycle = [r \in Runners |-> 0]
  /\ got = [r \in Runners |-> 0]
  /\ fetched = {}
  /\ enqueued = <<>>
  /\ consumed = <<>>
  /\ handed = <<>>
  /\ NoFetcher

NextDaemon ==
  MainStart \/ Run \/ Fetch \/ Sleep \/ QueuePut \/ Consume \/ LoopStop
    \/ Sigterm

SpecDaemon == InitDaemon /\ [][NextDaemon]_vars

\* The event loop runs every ready callback and fires every timer that is
\* due; a get() need not ever return, and SIGTERM need not ever come.
FairDaemon ==
  /\ SpecDaemon
  /\ WF_vars(MainStart)
  /\ WF_vars(Run)
  /\ WF_vars(QueuePut)
  /\ WF_vars(Consume)
  /\ WF_vars(LoopStop)
  /\ \A r \in Runners : WF_vars(SleepEnds(r))

\* =================================================== the Datadog fetcher
\* main() of datadog_fetcher.py, called with a freshly made accumulator as
\* the tests call it.  One step of the model is one pass of the loop over
\* query_list; the query and the response Datadog gives for it are drawn at
\* that step.

\* query_dict.get("unit") when the query names no unit.
NoUnit == ""

\* The units a query may name: none, a member of UsageUnit in upper case,
\* and a word that is no member.
ConfiguredUnits == {NoUnit, "BYTES", "widgets"}

\* series_list[0]["unit"]: a unit whose plural is a member of UsageUnit,
\* one whose plural is no member, or no "unit" key at all.
NoUnitKey == "missing"

SeriesUnits == {"bytes", "widgets", NoUnitKey}

\* series["scope"]: it names the app_feature (or feature) tag, or does not.
NoScope == ""

Scopes == {"spans", NoScope}

\* point[1] in tenths: 25 is the 2.5 of the test data; None is no data.
PointValues == {None, 25}

RECURSIVE SeqsUpTo(_, _)
SeqsUpTo(set, n) ==
  IF n = 0 THEN {<<>>}
  ELSE LET shorter == SeqsUpTo(set, n - 1)
       IN  shorter \cup {Append(q, x) : q \in shorter, x \in set}

Series == [scope : Scopes, pointlist : SeqsUpTo(PointValues, MaxPoints)]

\* What query_datadog() returns: whether it has an "error" field, the unit
\* of its first series, and its series.
Response ==
  [error : BOOLEAN, unit : SeriesUnits, series : SeqsUpTo(Series, MaxSeries)]

\* An entry of the query file: whether the query string names app_feature or
\* feature, its unit, its shared_resource_id, and the response to it.
Query ==
  [valid : BOOLEAN, unit : ConfiguredUnits, shared_resource_id : Resources,
   response : Response]

\* str.lower() on the unit words of the model.
Lower(u) ==
  CASE u = "BYTES" -> "bytes"
    [] u = "SECONDS" -> "seconds"
    [] u = "BYTES_SEC" -> "bytes_sec"
    [] OTHER -> u

\* UsageUnit(value): the member with that value; ValueError when none has it.
IsUsageUnit(value) == value \in {"seconds", "bytes", "bytes_sec"}

UsageUnitOf(value) ==
  CASE value = "seconds" -> "SECONDS"
    [] value = "bytes" -> "BYTES"
    [] value = "bytes_sec" -> "BYTES_SEC"

\* int(point[1]): truncation.
IntOf(v) == v \div 10

\* parse_and_assert_response_series (lines 204-229) with
\* parse_and_assert_response_scope (lines 232-249).
ParseSeries(response) ==
  IF response.error THEN "AssertionError"
  ELSE IF \E i \in 1..Len(response.series) : response.series[i].scope = NoScope
  THEN "AssertionError"
  ELSE "none"

\* parse_and_assert_unit (lines 133-152).
ParseUnit(response) ==
  IF response.series = <<>> THEN [raised |-> "none", unit |-> ""]
  ELSE IF response.unit = NoUnitKey
  THEN [raised |-> "AssertionError", unit |-> ""]
  ELSE [raised |-> "none", unit |-> response.unit]

\* The unit main() goes on with (lines 392-403): the configured one, with
\* an AssertionError of parse_and_assert_unit swallowed, or the parsed one.
UnitFor(q) ==
  LET parsed == ParseUnit(q.response)
  IN  IF q.unit # NoUnit
      THEN [raised |-> "none", unit |-> q.unit]
      ELSE [raised |-> parsed.raised, unit |-> parsed.unit]

\* warn_multiple_units (lines 169-179) reads series_list[0]["unit"].
WarnMultipleUnits(response) ==
  IF response.series # <<>> /\ response.unit = NoUnitKey
  THEN "KeyError" ELSE "none"

\* The records of one series (lines 318-329): one per point with a value.
RECURSIVE PointRecords(_, _, _, _)
PointRecords(pointlist, app_feature, usage_unit, shared_resource_id) ==
  IF pointlist = <<>> THEN <<>>
  ELSE LET rest == PointRecords(Tail(pointlist), app_feature, usage_unit,
                                shared_resource_id)
       IN  IF Head(pointlist) # None
           THEN <<[resource_id |-> shared_resource_id,
                   app_feature |-> app_feature,
                   amount |-> IntOf(Head(pointlist)),
                   usage_type |-> usage_unit]>> \o rest
           ELSE rest

\* process_series_data (lines 312-331).
RECURSIVE process_series_data(_, _, _)
process_series_data(series_list, parsed_unit, shared_resource_id) ==
  IF series_list = <<>> THEN <<>>
  ELSE PointRecords(Head(series_list).pointlist, Head(series_list).scope,
                    parsed_unit, shared_resource_id)
         \o process_series_data(Tail(series_list), parsed_unit,
                                shared_resource_id)

\* The body of the loop of main() for one query (lines 381-411): the
\* exception it raises, or the records it gives.
LoopBody(q) ==
  LET u == UnitFor(q)
  IN  IF ~q.valid THEN [raised |-> "AssertionError", records |-> <<>>]
      ELSE IF ParseSeries(q.response) # "none"
      THEN [raised |-> ParseSeries(q.response), records |-> <<>>]
      ELSE IF u.raised # "none" THEN [raised |-> u.raised, records |-> <<>>]
      ELSE IF ~IsUsageUnit(Lower(u.unit))
      THEN [raised |-> "ValueError", records |-> <<>>]
      ELSE IF WarnMultipleUnits(q.response) # "none"
      THEN [raised |-> WarnMultipleUnits(q.response), records |-> <<>>]
      ELSE [raised |-> "none",
            records |-> process_series_data(q.response.series,
                                            UsageUnitOf(Lower(u.unit)),
                                            q.shared_resource_id)]

\* Mutant of Collected: the records of a query are posted in its own pass.
PostedAtOnce(list, new) == [list |-> list, posted |-> new]

\* record_list.extend(...) (lines 409-411): the records are kept in the list
\* and none of them is posted inside the loop.
Collected(list, new) == [list |-> list \o new, posted |-> <<>>]

\* The points with a value in a response.
RECURSIVE WithValue(_)
WithValue(series_list) ==
  IF series_list = <<>> THEN 0
  ELSE Len(SelectSeq(Head(series_list).pointlist, LAMBDA v : v # None))
         + WithValue(Tail(series_list))

Short(q) ==
  [valid |-> q.valid, error |-> q.response.error, unit |-> q.unit,
   empty |-> q.response.series = <<>>]

\* One pass of `for query_dict in query_list` (lines 380-411).
LoopStep ==
  /\ ddf_pc = "loop"
  /\ query_no <= n_queries
  /\ \E q \in Query :
       LET res == LoopBody(q)
           c == Collected(record_list, res.records)
       IN  /\ query_dict' = Short(q)
           /\ IF res.raised # "none"
              THEN /\ ddf_pc' = "raised"
                   /\ ddf_error' = res.raised
                   /\ UNCHANGED <<query_no, record_list, wanted, calls>>
              ELSE /\ record_list' = c.list
                   /\ calls' = calls \o [i \in 1..Len(c.posted) |-> "record"]
                   /\ query_no' = query_no + 1
                   /\ wanted' = wanted + WithValue(q.response.series)
                   /\ UNCHANGED <<ddf_pc, ddf_error>>
  /\ UNCHANGED <<ddf_dry_run, n_queries>>
  /\ UNCHANGED <<avars, dvars>>

\* post_to_usage_accumulator (lines 341-347): record() for each record in
\* turn.  record() sets first_timestamp and updates the batch, where it
\* raises KeyError on an absent key; the exception ends the loop.  (A call
\* that passes the update starts no flush here: time does not move during
\* main(), so now - first_timestamp stays 0.)
RECURSIVE PostRecords(_, _, _, _)
PostRecords(records, batch, ft, made) ==
  IF records = <<>>
  THEN [raised |-> FALSE, batch |-> batch, first_timestamp |-> ft,
        calls |-> made]
  ELSE LET r == Head(records)
           upd == AugAdd(batch,
                         KeyOf(now, r.resource_id, r.app_feature, r.usage_type),
                         r.amount)
       IN  IF upd.raised
           THEN [raised |-> TRUE, batch |-> batch,
                 first_timestamp |-> FirstTimestamp(ft, now),
                 calls |-> Append(made, "record")]
           ELSE PostRecords(Tail(records), upd.batch, FirstTimestamp(ft, now),
                            Append(made, "record"))

\* Whether class UsageAccumulator has a close() method: it defines __init__,
\* record, flush and __prune_queue only.
HasClose == FALSE

\* main() after the loop (lines 413-418): with dry_run the records are
\* logged; otherwise they are posted, then flush() and close() are called.
Finish ==
  /\ ddf_pc = "loop"
  /\ query_no > n_queries
  /\ IF ddf_dry_run
     THEN /\ ddf_pc' = "done"
          /\ UNCHANGED <<ddf_error, calls, first_timestamp, usage_batch,
                         futures>>
     ELSE LET p == PostRecords(record_list, usage_batch, first_timestamp, <<>>)
              f == FlushBody(p.batch, futures, queue_size, 0)
          IN  /\ first_timestamp' = p.first_timestamp
              /\ usage_batch' = p.batch
              /\ IF p.raised
                 THEN /\ ddf_pc' = "raised"
                      /\ ddf_error' = "KeyError"
                      /\ calls' = calls \o p.calls
                      /\ futures' = futures
                 ELSE /\ futures' = f.futures
                      /\ IF HasClose
                         THEN /\ ddf_pc' = "done"
                              /\ ddf_error' = ddf_error
                              /\ calls' = calls \o p.calls \o <<"flush", "close">>
                         ELSE /\ ddf_pc' = "raised"
                              /\ ddf_error' = "AttributeError"
                              /\ calls' = calls \o p.calls \o <<"flush">>
  /\ UNCHANGED <<ddf_dry_run, n_queries, query_no, record_list, query_dict,
                 wanted>>
  /\ UNCHANGED <<now, queue_size, published, recorded, pending, window_start,
                 call>>
  /\ UNCHANGED dvars

\* main(query_file, start_time, period_seconds, usage_accumulator, dry_run)
\* is called: the query file has been read, the accumulator is as __init__
\* leaves it.
InitFetcher ==
  /\ now = 0
  /\ first_timestamp = None
  /\ usage_batch = <<>>
  /\ futures = <<>>
  /\ queue_size = MaxQueueSize
  /\ published = [k \in UsageKey |-> "never"]
  /\ recorded = [k \in UsageKey |-> 0]
  /\ pending = [k \in UsageKey |-> 0]
  /\ window_start = None
  /\ call = NoCall("init")
  /\ NoDaemon
  /\ ddf_dry_run \in BOOLEAN
  /\ n_queries \in 0..MaxQueries
  /\ query_no = 1
  /\ ddf_pc = "loop"
  /\ ddf_error = "none"
  /\ record_list = <<>>
  /\ query_dict = NoQuery
  /\ wanted = 0
  /\ calls = <<>>

NextFetcher == LoopStep \/ Finish

SpecFetcher == InitFetcher /\ [][NextFetcher]_vars

\* ================================================================ claims

\* C1: record() calls for one key in one bucket, followed by a flush() that
\* returns normally and is not limited by capacity, give a published record
\* for that key whose amount is the sum of the amounts of those calls.
C1_FlushPublishesSum ==
  [][(/\ call'.op = "flush"
      /\ call'.raised = "none"
      /\ ~call'.capped
      /\ Len(futures') < queue_size)
     => \A k \in UsageKey :
          pending[k] > 0 =>
            \E i \in 1..Len(call'.sent) :
              /\ MsgIsFor(call'.sent[i], k)
              /\ call'.sent[i].amount = pending[k]]_vars

\* C2: at every instant, for every key, the amount the batch holds is the sum
\* of the amounts passed to record() for that key since the last flush that
\* submitted the key.
C2_BatchHoldsPending ==
  \A k \in UsageKey : AmountOf(usage_batch, k) = pending[k]

C8_AutoFlush ==
  (/\ call.op = "record"
   /\ call.window # None
   /\ now > call.window + granularity_sec
   /\ ~call.capped
   /\ Len(futures) < queue_size)
  => \A k \in UsageKey :
       (k[1] = FloorBucket(call.window) /\ recorded[k] > 0)
         => published[k] # "never"

LeftBehind(k) ==
  /\ queue_size > 0
  /\ call.flushed
  /\ call.capped
  /\ HasKey(usage_batch, k)
  /\ ~Submits(call.sent, k)
  /\ published[k] = "never"

LeadingDone(futs) ==
  Cardinality({i \in 1..Len(futs) : \A j \in 1..i : futs[j]})

PendingPuts(r) ==
  {n \in 1..Len(ready) : ready[n].kind = "put" /\ ready[n].r = r}
  \cup {-n : n \in {m \in 1..Len(putters) : putters[m].r = r}}

\* main() is in its consumption loop.
MainLoops == main_pc \in {"waiting", "ready"}

\* C15: a get() that raises does not end its Runner: while main() runs its
\* loop, every Runner keeps a task that is running a cycle or will run the
\* next one.
C15_FailedCycleGoesOn == MainLoops => \A r \in Runners : rpc[r] # "failed"

C17_PutsBeforeSleep ==
  MainLoops =>
    \A r \in Runners :
      rpc[r] \in {"sleeping", "woken", "created", "fetching", "fetched"}
        => PendingPuts(r) = {}

\* C18: per Runner, the Datapoints are enqueued in the order of their cycles.
C18_CycleOrder ==
  \A m, n \in 1..Len(enqueued) :
    (m < n /\ enqueued[m].r = enqueued[n].r) => enqueued[m].c <= enqueued[n].c

C20_RecordedOnce ==
  /\ \A m, n \in 1..Len(handed) : handed[m] = handed[n] => m = n
  /\ (~dry_run /\ main_pc = "stopped")
       => \A d \in fetched : \E n \in 1..Len(handed) : handed[n] = d

C27_AbsentKeyCreated ==
  [][\A k \in UsageKey :
       (/\ call'.op = "record"
        /\ recorded'[k] > recorded[k]
        /\ ~HasKey(usage_batch, k))
       => /\ call'.raised # "KeyError"
          /\ AmountOf(usage_batch', k) = recorded'[k] - recorded[k]]_vars

C29_FirstTimestampSetOnce ==
  [][call'.op = "record"
     => first_timestamp' =
          IF first_timestamp = None THEN now ELSE first_timestamp]_vars

\* C29 witness: first_timestamp was set by a record() after time 0, and a
\* later record() has returned with it still at that time.
C29_KeptWhileSet ==
  /\ call.op = "record"
  /\ first_timestamp # None
  /\ first_timestamp > 0
  /\ now > first_timestamp

C21_SigtermFlushes ==
  main_pc = "killed" => (call.op = "flush" /\ call.synchronous)

Blocked(r) ==
  \/ rpc[r] = "fetching"
  \/ \E n \in 1..Len(putters) : putters[n].r = r

\* C26: start() schedules the first cycle of each Runner and runs none of
\* it; and while one Runner is suspended in get() or waits to enqueue, another
\* Runner that sleeps goes on to its next cycle (as long as cycles are left
\* to run and SIGTERM has not ended the process).
C26_OthersKeepCycling ==
  /\ [][(main_pc = "start" /\ main_pc' \notin {"start", "killed"})
          => /\ \A r \in Runners : rpc'[r] = "created"
             /\ fetched' = fetched]_vars
  /\ \A r, o \in Runners :
       (/\ r # o
        /\ Blocked(r)
        /\ rpc[o] = "sleeping"
        /\ SumOver(cycle, Runners) < MaxCycles)
       ~> (\/ rpc[o] = "woken"
           \/ SumOver(cycle, Runners) >= MaxCycles
           \/ main_pc = "killed")

KeysOf(batch) == [i \in 1..Len(batch) |-> batch[i].key]

LoopOver == ddf_pc \in {"done", "raised"} /\ query_no > n_queries

\* C34: when main() is over, its loop having passed every query: with
\* dry_run no call was made on the accumulator; without it main() returned
\* after one record() call per point with a value, then one flush(), then
\* close().
C34_RecordsFlushClose ==
  LoopOver =>
    IF ddf_dry_run
    THEN calls = <<>>
    ELSE /\ ddf_pc = "done"
         /\ calls = [i \in 1..wanted |-> "record"] \o <<"flush", "close">>

\* C35: main() does not raise on a query whose string is valid and whose
\* response has no error field and an empty series list, with a unit
\* configured or not; and such a query adds no record.
C35_EmptySeriesAccepted ==
  [][(/\ ddf_pc = "loop"
      /\ query_no <= n_queries
      /\ (query_no' # query_no \/ ddf_pc' # ddf_pc)
      /\ query_dict'.empty
      /\ query_dict'.valid
      /\ ~query_dict'.error)
     => /\ ddf_pc' = "loop"
        /\ record_list' = record_list]_vars

\* C36: a call is made on the accumulator only after the loop has passed
\* every query; when main() raised inside the loop, whatever it raised, no
\* call has been made.
C36_AllOrNothing ==
  /\ calls # <<>> => query_no > n_queries
  /\ (ddf_pc = "raised" /\ query_no <= n_queries) => calls = <<>>

\* C36 witness: the first query gave records, and main() raised on the
\* second; no call was made.
C36_SecondQueryFails ==
  /\ ddf_pc = "raised"
  /\ query_no = 2
  /\ n_queries >= 2
  /\ record_list # <<>>
  /\ ~ddf_dry_run
  /\ calls = <<>>

====
